---- MODULE Spec2Model ----
(***************************************************************************)
(* Model of src/src/grid.rs: Grid<T>, a heap-allocated 2D grid stored as a *)
(* row-major Vec<T> (`raw`) plus its dimensions (`dim`), indexed by        *)
(* Vector { x, y } positions with signed 64-bit coordinates.               *)
(*                                                                         *)
(* Integer widths are scaled down: i64 is I64Bits wide, and usize is       *)
(* either as wide as i64 (a 64-bit target) or narrower (a 32-bit target,   *)
(* where `as usize` truncates an i64).                                     *)
(***************************************************************************)
EXTENDS Integers, Sequences, FiniteSets, TLC

\* ---------------------------------------------------------------- bounds
NarrowBits == 1                 \* width of usize on the narrow target
I64Bits == NarrowBits + 2       \* width of i64 (and of usize on the wide target)
MaxDim == 3                     \* largest dimension / coordinate argument tried
MaxLen == 5                     \* longest flat iterator handed to from_iter
MaxRows == 2                    \* most rows handed to from_nested_iter
MaxRowLen == 2                  \* longest row handed to from_nested_iter
MaxWrites == 1                  \* writes applied to one grid

\* ---------------------------------------------------------------- inputs
Val == {0, 12}                  \* element values (T = an integer type)
DimArgs == (-1)..MaxDim         \* width / height arguments
Coord == (-1)..MaxDim           \* position coordinates
SimpleFns == {"zero", "twelve", "toggle"}   \* FnMut() -> T closures
PosFns == {"sum", "rowmajor", "twelve"}     \* FnMut(Vector) -> T closures

RECURSIVE Pow2(_)
Pow2(n) == IF n = 0 THEN 1 ELSE 2 * Pow2(n - 1)

RECURSIVE SeqsUpTo(_, _)
SeqsUpTo(S, n) ==
    IF n = 0 THEN {<<>>}
    ELSE LET shorter == SeqsUpTo(S, n - 1)
         IN  shorter \cup {Append(s, v) : s \in {t \in shorter : Len(t) = n - 1}, v \in S}

Iterables == SeqsUpTo(Val, MaxLen)          \* finite IntoIterator<Item = T>
Rows == SeqsUpTo(Val, MaxRowLen)            \* one inner iterator
NestedIterables == SeqsUpTo(Rows, MaxRows)  \* iterator of iterators

\* value of the k-th call (k = 1, 2, ...) of a FnMut() -> T closure
call_simple(f, k) ==
    CASE f = "zero" -> 0
      [] f = "twelve" -> 12
      [] OTHER -> IF k % 2 = 1 THEN 0 ELSE 12

\* value of a FnMut(Vector) -> T closure at a position
call_pos(f, pos) ==
    CASE f = "sum" -> pos.x + pos.y
      [] f = "rowmajor" -> pos.x + 10 * pos.y
      [] OTHER -> 12

\* ---------------------------------------------------------------- state
VARIABLES
    usizeBits,        \* width of usize on the target the program was built for
    overflowChecks,   \* whether the build panics on arithmetic overflow (else wraps)
    pc,               \* "start" | "called" (a call just returned) | "live" | "panicked"
    grid,             \* the Grid: [raw, dim]
    last,             \* the last call: its name, arguments, result and the grid before it
    writes            \* number of writes applied to the grid

vars == <<usizeBits, overflowChecks, pc, grid, last, writes>>

\* Option<T>
None == <<>>
Some(v) == <<v>>

\* panics: <<>> for none, else <<message, values the message carries...>>
NoPanic == <<>>

Vec(x, y) == [x |-> x, y |-> y]

\* `n as usize` for an i64 n: two's complement truncation to the usize width
as_usize(n) == n % Pow2(usizeBits)

UsizeMax == Pow2(usizeBits) - 1

\* size() with the positivity test off by one (rejects only negative dimensions)
size_nonneg(width, height) ==
    IF width < 0 \/ height < 0
    THEN [panic |-> <<"dimensions must be positive", Vec(width, height)>>, ret |-> 0]
    ELSE IF as_usize(width) * as_usize(height) <= UsizeMax
         THEN [panic |-> NoPanic, ret |-> as_usize(width) * as_usize(height)]
         ELSE [panic |-> <<"dimensions are too large", Vec(width, height)>>, ret |-> 0]

\* ---------------------------------------------------------------- size
\* fn size(width: i64, height: i64) -> usize
size(width, height) ==
    IF width <= 0 \/ height <= 0
    THEN [panic |-> <<"dimensions must be positive", Vec(width, height)>>, ret |-> 0]
    ELSE IF as_usize(width) * as_usize(height) <= UsizeMax      \* checked_mul
         THEN [panic |-> NoPanic, ret |-> as_usize(width) * as_usize(height)]
         ELSE [panic |-> <<"dimensions are too large", Vec(width, height)>>, ret |-> 0]

\* ---------------------------------------------------------------- Grid
EmptyGrid == [raw |-> <<>>, dim |-> Vec(0, 0)]

width(g) == g.dim.x
height(g) == g.dim.y

\* Vector::default(), the `dim` of the derived Default for Grid
VectorDefault == Vec(0, 0)

Built(g) == [panic |-> NoPanic, grid |-> g]
Failed(p) == [panic |-> p, grid |-> EmptyGrid]

\* Grid::new
new(w, h, value) ==
    LET s == size(w, h)
    IN  IF s.panic # NoPanic THEN Failed(s.panic)
        ELSE Built([raw |-> [i \in 1..s.ret |-> value], dim |-> Vec(w, h)])

\* Grid::default(width, height)
default(w, h) ==
    LET s == size(w, h)
    IN  IF s.panic # NoPanic THEN Failed(s.panic)
        ELSE Built([raw |-> [i \in 1..s.ret |-> 0], dim |-> Vec(w, h)])

\* Grid::from_simple_fn
from_simple_fn(w, h, f) ==
    LET s == size(w, h)
    IN  IF s.panic # NoPanic THEN Failed(s.panic)
        ELSE Built([raw |-> [i \in 1..s.ret |-> call_simple(f, i)], dim |-> Vec(w, h)])

\* Grid::from_fn: the capacity comes from size(), the elements from the two
\* loops over 0..height and 0..width; a Vec cannot hold more than usize::MAX
\* elements, so pushing past that panics.
from_fn(w, h, f) ==
    LET s == size(w, h)
    IN  IF s.panic # NoPanic THEN Failed(s.panic)
        ELSE IF w * h > UsizeMax THEN Failed(<<"capacity overflow">>)
        ELSE Built([raw |-> [i \in 1..(w * h) |->
                                call_pos(f, Vec((i - 1) % w, (i - 1) \div w))],
                    dim |-> Vec(w, h)])

\* from_iter() that stops at the end of the iterator instead of panicking
from_iter_lenient(w, h, values) ==
    LET s == size(w, h)
    IN  IF s.panic # NoPanic THEN Failed(s.panic)
        ELSE Built([raw |-> SubSeq(values, 1, IF Len(values) < s.ret THEN Len(values)
                                                ELSE s.ret),
                    dim |-> Vec(w, h)])

\* Grid::from_iter
from_iter(w, h, values) ==
    LET s == size(w, h)
    IN  IF s.panic # NoPanic THEN Failed(s.panic)
        ELSE IF Len(values) < s.ret THEN Failed(<<"iterator too short">>)
        ELSE Built([raw |-> SubSeq(values, 1, s.ret), dim |-> Vec(w, h)])

RECURSIVE Flatten(_)
Flatten(rows) == IF rows = <<>> THEN <<>> ELSE Head(rows) \o Flatten(Tail(rows))

\* from_nested_iter() without the comparison of the rows' lengths
from_nested_iter_unchecked(values) ==
    IF values = <<>> THEN Built([raw |-> <<>>, dim |-> Vec(0, 0)])
    ELSE IF Len(Flatten(values)) > UsizeMax THEN Failed(<<"capacity overflow">>)
    ELSE Built([raw |-> Flatten(values), dim |-> Vec(Len(Head(values)), Len(values))])

\* the rows after the first of Grid::from_nested_iter: each is pushed whole
\* (a Vec holds at most usize::MAX elements) and then its length is compared
RECURSIVE nested_rows(_, _, _, _)
nested_rows(rest, raw, w, h) ==
    IF rest = <<>> THEN Built([raw |-> raw, dim |-> Vec(w, h)])
    ELSE IF Len(raw) + Len(Head(rest)) > UsizeMax THEN Failed(<<"capacity overflow">>)
    ELSE IF Len(Head(rest)) # w
         THEN Failed(<<"not all inner iterators are the same length">>)
         ELSE nested_rows(Tail(rest), raw \o Head(rest), w, h + 1)

\* Grid::from_nested_iter
from_nested_iter(values) ==
    IF values = <<>> THEN Built([raw |-> <<>>, dim |-> Vec(0, 0)])
    ELSE IF Len(Head(values)) > UsizeMax THEN Failed(<<"capacity overflow">>)
    ELSE nested_rows(Tail(values), Head(values), Len(Head(values)), 1)

\* #[derive(Default)] for Grid
derive_default == Built([raw |-> <<>>, dim |-> VectorDefault])

\* in_bounds() with inclusive upper ends
in_bounds_inclusive(g, pos) ==
    (0 <= pos.x /\ pos.x <= width(g)) /\ (0 <= pos.y /\ pos.y <= height(g))

\* Grid::in_bounds
in_bounds(g, pos) ==
    (0 <= pos.x /\ pos.x < width(g)) /\ (0 <= pos.y /\ pos.y < height(g))

\* Grid::get_index: pos.x as usize + ((pos.y as usize) * (self.width() as usize))
get_index(g, pos) ==
    IF ~in_bounds(g, pos) THEN [panic |-> NoPanic, ret |-> None]
    ELSE LET prod == as_usize(pos.y) * as_usize(width(g))
             sum == as_usize(pos.x) + (prod % Pow2(usizeBits))
         IN  IF overflowChecks /\ prod > UsizeMax
             THEN [panic |-> <<"attempt to multiply with overflow">>, ret |-> None]
             ELSE IF overflowChecks /\ sum > UsizeMax
             THEN [panic |-> <<"attempt to add with overflow">>, ret |-> None]
             ELSE [panic |-> NoPanic, ret |-> Some(sum % Pow2(usizeBits))]

\* Grid::get: Some(&self.raw[self.get_index(pos)?])
get(g, pos) ==
    LET i == get_index(g, pos)
    IN  IF i.panic # NoPanic \/ i.ret = None THEN i
        ELSE IF i.ret[1] >= Len(g.raw)
             THEN [panic |-> <<"index out of bounds", Len(g.raw), i.ret[1]>>, ret |-> None]
             ELSE [panic |-> NoPanic, ret |-> Some(g.raw[i.ret[1] + 1])]

\* Grid::get_mut, with the caller storing `value` through the returned
\* reference; `ret` is the value the reference pointed at
get_mut(g, pos, value) ==
    LET i == get_index(g, pos)
    IN  IF i.panic # NoPanic \/ i.ret = None
        THEN [panic |-> i.panic, ret |-> None, grid |-> g]
        ELSE IF i.ret[1] >= Len(g.raw)
             THEN [panic |-> <<"index out of bounds", Len(g.raw), i.ret[1]>>,
                   ret |-> None, grid |-> g]
             ELSE [panic |-> NoPanic, ret |-> Some(g.raw[i.ret[1] + 1]),
                   grid |-> [g EXCEPT !.raw[i.ret[1] + 1] = value]]

\* Grid::set: Some(std::mem::replace(self.get_mut(pos)?, value))
set(g, pos, value) == get_mut(g, pos, value)

\* index() that hands out a default value where it should panic
index_or_default(g, pos) ==
    LET r == get(g, pos)
    IN  IF r.panic # NoPanic \/ r.ret # None THEN r
        ELSE [panic |-> NoPanic, ret |-> Some(0)]

\* Index<Vector>::index
index(g, pos) ==
    LET r == get(g, pos)
    IN  IF r.panic # NoPanic \/ r.ret # None THEN r
        ELSE [panic |-> <<"position out of bounds", g.dim, pos>>, ret |-> None]

\* IndexMut<Vector>::index_mut, with the caller storing `value`
index_mut(g, pos, value) ==
    LET r == get_mut(g, pos, value)
    IN  IF r.panic # NoPanic \/ r.ret # None THEN r
        ELSE [panic |-> <<"position out of bounds", g.dim, pos>>, ret |-> None, grid |-> g]

\* Grid::iter: the elements in storage order
iter(g) == g.raw

Digits == <<"0", "1", "2", "3", "4", "5", "6", "7", "8", "9">>

\* ToString::to_string of a non-negative integer, as a sequence of characters
RECURSIVE to_string(_)
to_string(n) ==
    IF n < 10 THEN <<Digits[n + 1]>>
    ELSE to_string(n \div 10) \o <<Digits[(n % 10) + 1]>>

\* Grid::map applied to ToString::to_string, over the elements in storage order
map_to_string(g) == [raw |-> [i \in DOMAIN g.raw |-> to_string(g.raw[i])], dim |-> g.dim]

\* " ".repeat(n)
repeat_space(n) == [i \in 1..n |-> " "]

\* the inner loop of Debug::fmt: for x in 0..strings.width()
RECURSIVE fmt_row(_, _, _, _, _)
fmt_row(strings, longest, y, x, out) ==
    IF x >= width(strings) THEN [panic |-> NoPanic, ret |-> out]
    ELSE LET s == index(strings, Vec(x, y))
         IN  IF s.panic # NoPanic THEN [panic |-> s.panic, ret |-> out]
             ELSE fmt_row(strings, longest, y, x + 1,
                          out \o repeat_space(longest - Len(s.ret[1])) \o s.ret[1]
                              \o (IF x # width(strings) - 1 THEN <<",">> ELSE <<>>))

\* the outer loop of Debug::fmt: for y in 0..strings.height()
RECURSIVE fmt_rows(_, _, _, _)
fmt_rows(strings, longest, y, out) ==
    IF y >= height(strings) THEN [panic |-> NoPanic, ret |-> out]
    ELSE LET r == fmt_row(strings, longest, y, 0, out)
         IN  IF r.panic # NoPanic THEN r
             ELSE fmt_rows(strings, longest, y + 1,
                           IF y # height(strings) - 1 THEN r.ret \o <<"\n">> ELSE r.ret)

\* the longest of a non-empty sequence of strings
max_len(ss) == CHOOSE n \in {Len(ss[i]) : i \in DOMAIN ss} :
                   \A i \in DOMAIN ss : Len(ss[i]) <= n

\* fmt::Debug for Grid<T>; `ret` is the text written
fmt(g) ==
    LET strings == map_to_string(g)
    IN  IF iter(strings) = <<>>      \* .max() is None, .unwrap() panics
        THEN [panic |-> <<"called Option::unwrap() on a None value">>, ret |-> <<>>]
        ELSE fmt_rows(strings, max_len(iter(strings)), 0,
                      to_string(width(g)) \o <<"x">> \o to_string(height(g)) \o <<"\n">>)

\* ---------------------------------------------------------------- actions
Call(op, args, panic, ret, before) ==
    [op |-> op, args |-> args, panic |-> panic, ret |-> ret, before |-> before]

Init ==
    /\ usizeBits \in {NarrowBits, I64Bits}
    /\ overflowChecks \in BOOLEAN
    /\ pc = "start"
    /\ grid = EmptyGrid
    /\ last = Call("init", [none |-> 0], NoPanic, None, EmptyGrid)
    /\ writes = 0

Construct(op, args, r) ==
    /\ pc = "start"
    /\ pc' = IF r.panic = NoPanic THEN "called" ELSE "panicked"
    /\ grid' = r.grid
    /\ last' = Call(op, args, r.panic, None, EmptyGrid)
    /\ UNCHANGED <<usizeBits, overflowChecks, writes>>

New ==
    /\ pc = "start"
    /\ \E w \in DimArgs, h \in DimArgs, v \in Val :
           Construct("new", [width |-> w, height |-> h, value |-> v], new(w, h, v))

Default ==
    /\ pc = "start"
    /\ \E w \in DimArgs, h \in DimArgs :
           Construct("default", [width |-> w, height |-> h], default(w, h))

FromSimpleFn ==
    /\ pc = "start"
    /\ \E w \in DimArgs, h \in DimArgs, f \in SimpleFns :
           Construct("from_simple_fn", [width |-> w, height |-> h, f |-> f],
                     from_simple_fn(w, h, f))

FromFn ==
    /\ pc = "start"
    /\ \E w \in DimArgs, h \in DimArgs, f \in PosFns :
           Construct("from_fn", [width |-> w, height |-> h, f |-> f], from_fn(w, h, f))

FromIter ==
    /\ pc = "start"
    /\ \E w \in DimArgs, h \in DimArgs, values \in Iterables :
           Construct("from_iter", [width |-> w, height |-> h, values |-> values],
                     from_iter(w, h, values))

FromNestedIter ==
    /\ pc = "start"
    /\ \E values \in NestedIterables :
           Construct("from_nested_iter", [values |-> values], from_nested_iter(values))

DeriveDefault ==
    /\ pc = "start"
    /\ Construct("derive_default", [none |-> 0], derive_default)

\* a call that only reads the grid
Read(op, args, r) ==
    /\ pc = "live"
    /\ pc' = IF r.panic = NoPanic THEN "called" ELSE "panicked"
    /\ last' = Call(op, args, r.panic, r.ret, grid)
    /\ UNCHANGED <<usizeBits, overflowChecks, grid, writes>>

\* a call that may write the grid
Write(op, args, r) ==
    /\ pc = "live"
    /\ writes < MaxWrites
    /\ pc' = IF r.panic = NoPanic THEN "called" ELSE "panicked"
    /\ grid' = r.grid
    /\ last' = Call(op, args, r.panic, r.ret, grid)
    /\ writes' = writes + 1
    /\ UNCHANGED <<usizeBits, overflowChecks>>

InBounds ==
    /\ pc = "live"
    /\ \E x \in Coord, y \in Coord :
           Read("in_bounds", [pos |-> Vec(x, y)],
                [panic |-> NoPanic, ret |-> in_bounds(grid, Vec(x, y))])

Get ==
    /\ pc = "live"
    /\ \E x \in Coord, y \in Coord :
           Read("get", [pos |-> Vec(x, y)], get(grid, Vec(x, y)))

GetMut ==
    /\ pc = "live"
    /\ \E x \in Coord, y \in Coord, v \in Val :
           Write("get_mut", [pos |-> Vec(x, y), value |-> v], get_mut(grid, Vec(x, y), v))

Set ==
    /\ pc = "live"
    /\ \E x \in Coord, y \in Coord, v \in Val :
           Write("set", [pos |-> Vec(x, y), value |-> v], set(grid, Vec(x, y), v))

Index ==
    /\ pc = "live"
    /\ \E x \in Coord, y \in Coord :
           Read("index", [pos |-> Vec(x, y)], index(grid, Vec(x, y)))

IndexMut ==
    /\ pc = "live"
    /\ \E x \in Coord, y \in Coord, v \in Val :
           Write("index_mut", [pos |-> Vec(x, y), value |-> v],
                 index_mut(grid, Vec(x, y), v))

Fmt ==
    /\ pc = "live"
    /\ Read("fmt", [none |-> 0], fmt(grid))

\* the caller takes the result of the call that just returned and goes on
Return ==
    /\ pc = "called"
    /\ pc' = "live"
    /\ last' = Call("none", [none |-> 0], NoPanic, None, grid)
    /\ UNCHANGED <<usizeBits, overflowChecks, grid, writes>>

Next ==
    \/ New
    \/ Default
    \/ FromSimpleFn
    \/ FromFn
    \/ FromIter
    \/ FromNestedIter
    \/ DeriveDefault
    \/ InBounds
    \/ Get
    \/ GetMut
    \/ Set
    \/ Index
    \/ IndexMut
    \/ Fmt
    \/ Return

Spec == Init /\ [][Next]_vars

\* the program built for a target whose usize is as wide as i64
InitWide ==
    /\ usizeBits = I64Bits
    /\ overflowChecks \in BOOLEAN
    /\ pc = "start"
    /\ grid = EmptyGrid
    /\ last = Call("init", [none |-> 0], NoPanic, None, EmptyGrid)
    /\ writes = 0

SpecWide == InitWide /\ [][Next]_vars
\* ---------------------------------------------------------------- properties
\* The layout the grid promises: a position is in bounds iff 0 <= x < width and
\* 0 <= y < height, and the cell at (x, y) is element x + y*width of `raw`.
InRange(pos, dim) == 0 <= pos.x /\ pos.x < dim.x /\ 0 <= pos.y /\ pos.y < dim.y
Positions(dim) == {Vec(x, y) : x \in 0..(dim.x - 1), y \in 0..(dim.y - 1)}
WellFormed(g) == Len(g.raw) = g.dim.x * g.dim.y
Offset(g, pos) == pos.x + pos.y * g.dim.x + 1
Present(v) == [panic |-> NoPanic, ret |-> Some(v)]
Ctors == {"new", "default", "from_simple_fn", "from_fn", "from_iter",
          "from_nested_iter", "derive_default"}
DimCtors == {"new", "default", "from_simple_fn", "from_fn", "from_iter"}

\* C1: set(pos, value) with pos out of bounds returns None and leaves the
\* dimensions and every cell of the grid unchanged.
C1_SetOutOfBounds ==
    (last.op = "set" /\ ~InRange(last.args.pos, last.before.dim)) =>
        /\ last.panic = NoPanic
        /\ last.ret = None
        /\ grid = last.before

\* a set one column past the right edge of a grid that has cells
C1_Witness ==
    /\ last.op = "set"
    /\ pc = "called"
    /\ last.before.raw # <<>>
    /\ last.before.dim.y >= 2
    /\ last.args.pos = Vec(last.before.dim.x, 0)
    /\ last.args.value # last.before.raw[1]

\* C2: set(pos, v) with pos in bounds returns Some(old), old being what
\* get(pos) returned before the call; afterwards get(pos) is Some(v) and every
\* other in-bounds position holds what it held before.
C2_SetInBounds ==
    (last.op = "set" /\ InRange(last.args.pos, last.before.dim)) =>
        /\ last.panic = NoPanic
        /\ last.ret # None
        /\ get(last.before, last.args.pos) = Present(last.ret[1])
        /\ get(grid, last.args.pos) = Present(last.args.value)
        /\ \A q \in Positions(last.before.dim) \ {last.args.pos} :
               get(grid, q) = get(last.before, q)

\* C3: in_bounds(pos) is true iff 0 <= x < width and 0 <= y < height; get and
\* get_mut return a present result exactly then; none of them panics.
C3_BoundsAndGet ==
    /\ last.op = "in_bounds" =>
           /\ last.panic = NoPanic
           /\ last.ret = InRange(last.args.pos, last.before.dim)
    /\ last.op \in {"get", "get_mut"} =>
           /\ last.panic = NoPanic
           /\ (last.ret # None) <=> InRange(last.args.pos, last.before.dim)

\* C4: a grid a constructor returned stores width() * height() elements, and
\* set, get_mut writes and index_mut writes keep the element count and the
\* dimensions.
C4_ElementCount ==
    /\ pc \in {"called", "live"} => Len(grid.raw) = width(grid) * height(grid)
    /\ last.op \in {"set", "get_mut", "index_mut"} =>
           /\ grid.dim = last.before.dim
           /\ Len(grid.raw) = Len(last.before.raw)

\* C5 as stated: every grid a constructor returns has width > 0 and
\* height > 0, except the (0, 0) grid from_nested_iter returns for zero rows.
C5_Original ==
    (last.op \in Ctors /\ last.panic = NoPanic) =>
        \/ width(grid) > 0 /\ height(grid) > 0
        \/ /\ last.op = "from_nested_iter"
           /\ last.args.values = <<>>
           /\ grid.dim = Vec(0, 0)

\* C5 as amended: every grid a constructor returns has width > 0 and
\* height > 0, except that from_nested_iter returns (0, 0) for zero rows and
\* (0, number of rows) for rows of length zero, and the derived Default value
\* has the dimensions Vector::default().
C5_PositiveDimensions ==
    (last.op \in Ctors /\ last.panic = NoPanic) =>
        IF last.op = "from_nested_iter" /\ last.args.values = <<>>
        THEN grid.dim = Vec(0, 0)
        ELSE IF last.op = "from_nested_iter" /\ Head(last.args.values) = <<>>
        THEN grid.dim = Vec(0, Len(last.args.values))
        ELSE IF last.op = "derive_default"
        THEN grid.dim = VectorDefault
        ELSE width(grid) > 0 /\ height(grid) > 0

\* from_nested_iter has returned a grid for two rows of length zero
C5_Witness ==
    /\ last.op = "from_nested_iter"
    /\ pc = "called"
    /\ last.args.values = <<<<>>, <<>>>>
    /\ grid.dim = Vec(0, 2)

\* C6: grid[pos] (read or mutable) does what get(pos) / get_mut(pos) does when
\* pos is in bounds - on a grid that stores width*height elements it returns
\* the cell at offset x + y*width - and when pos is out of bounds it panics
\* with a message carrying the dimensions and pos, the grid untouched; it never
\* returns a default value or another cell.
C6_UncheckedIndex ==
    /\ last.op = "index" =>
           IF InRange(last.args.pos, last.before.dim)
           THEN /\ [panic |-> last.panic, ret |-> last.ret]
                       = get(last.before, last.args.pos)
                /\ WellFormed(last.before) =>
                       /\ last.panic = NoPanic
                       /\ last.ret = Some(last.before.raw[Offset(last.before, last.args.pos)])
           ELSE /\ last.panic = <<"position out of bounds", last.before.dim, last.args.pos>>
                /\ last.ret = None
                /\ grid = last.before
    /\ last.op = "index_mut" =>
           IF InRange(last.args.pos, last.before.dim)
           THEN /\ [panic |-> last.panic, ret |-> last.ret, grid |-> grid]
                       = get_mut(last.before, last.args.pos, last.args.value)
                /\ WellFormed(last.before) =>
                       /\ last.panic = NoPanic
                       /\ last.ret = Some(last.before.raw[Offset(last.before, last.args.pos)])
                       /\ grid = [last.before EXCEPT
                                      !.raw[Offset(last.before, last.args.pos)] = last.args.value]
           ELSE /\ last.panic = <<"position out of bounds", last.before.dim, last.args.pos>>
                /\ last.ret = None
                /\ grid = last.before

\* grid[pos] has panicked for a position below the last row of a grid with cells
C6_Witness ==
    /\ last.op = "index"
    /\ pc = "panicked"
    /\ last.before.raw # <<>>
    /\ last.args.pos = Vec(0, last.before.dim.y)
    /\ last.panic = <<"position out of bounds", last.before.dim, last.args.pos>>

\* C7: from_iter(width, height, values) with valid dimensions (positive, the
\* product within usize): given at least width*height items, the cell at
\* (x, y) holds item x + y*width and the items past width*height are ignored;
\* given fewer, construction panics and returns no grid.
C7_FromIter ==
    (/\ last.op = "from_iter"
     /\ last.args.width > 0
     /\ last.args.height > 0
     /\ last.args.width * last.args.height <= UsizeMax) =>
        IF Len(last.args.values) >= last.args.width * last.args.height
        THEN /\ last.panic = NoPanic
             /\ grid.dim = Vec(last.args.width, last.args.height)
             /\ Len(grid.raw) = last.args.width * last.args.height
             /\ \A q \in Positions(grid.dim) :
                    get(grid, q) = Present(last.args.values[q.x + q.y * last.args.width + 1])
        ELSE /\ last.panic = <<"iterator too short">>
             /\ pc = "panicked"
             /\ grid = EmptyGrid

\* from_iter has built a 2x2 grid from five items, the second and third differing
C7_Witness ==
    /\ last.op = "from_iter"
    /\ pc = "called"
    /\ last.args.width = 2
    /\ last.args.height = 2
    /\ Len(last.args.values) = 5
    /\ last.args.values[2] # last.args.values[3]

\* C8: from_nested_iter(rows) with at least one row: when every row is as long
\* as the first (and the elements fit a Vec), the width is the length of the
\* first row, the height the number of rows, and the cell at (x, y) holds
\* element x of row y; when a later row is shorter or longer than the first,
\* construction panics and returns no grid.
C8_FromNestedIter ==
    (last.op = "from_nested_iter" /\ last.args.values # <<>>) =>
        LET rows == last.args.values
        IN  IF \A i \in DOMAIN rows : Len(rows[i]) = Len(rows[1])
            THEN IF Len(rows[1]) * Len(rows) <= UsizeMax
                 THEN /\ last.panic = NoPanic
                      /\ grid.dim = Vec(Len(rows[1]), Len(rows))
                      /\ \A q \in Positions(grid.dim) :
                             get(grid, q) = Present(rows[q.y + 1][q.x + 1])
                 ELSE last.panic = <<"capacity overflow">>
            ELSE /\ last.panic # NoPanic
                 /\ pc = "panicked"
                 /\ grid = EmptyGrid

\* from_nested_iter has built a grid from two rows of two elements, not all equal
C8_Witness ==
    /\ last.op = "from_nested_iter"
    /\ pc = "called"
    /\ Len(last.args.values) = 2
    /\ Len(last.args.values[1]) = 2
    /\ last.args.values[1][2] # last.args.values[2][1]

\* C9: each dimension-taking constructor panics, before building anything, if
\* width <= 0, height <= 0 or width*height exceeds usize; otherwise the number
\* of elements it allocates for is the exact product width*height.
C9_DimensionCheck ==
    last.op \in DimCtors =>
        IF \/ last.args.width <= 0
           \/ last.args.height <= 0
           \/ last.args.width * last.args.height > UsizeMax
        THEN /\ last.panic # NoPanic
             /\ last.panic[1] \in {"dimensions must be positive", "dimensions are too large"}
             /\ grid = EmptyGrid
        ELSE \/ /\ last.panic = NoPanic
                /\ Len(grid.raw) = last.args.width * last.args.height
             \/ /\ last.op = "from_iter"
                /\ last.panic = <<"iterator too short">>
                /\ Len(last.args.values) < last.args.width * last.args.height

\* the text the Debug format promises: "{width}x{height}", then one line per
\* row, the elements separated by commas and right-aligned to the longest
Longest(g) ==
    IF g.raw = <<>> THEN 0
    ELSE CHOOSE n \in {Len(to_string(g.raw[i])) : i \in DOMAIN g.raw} :
             \A i \in DOMAIN g.raw : Len(to_string(g.raw[i])) <= n

RECURSIVE RowText(_, _, _)
RowText(g, y, x) ==
    IF x >= g.dim.x THEN <<>>
    ELSE LET s == to_string(g.raw[Offset(g, Vec(x, y))])
         IN  repeat_space(Longest(g) - Len(s)) \o s
                 \o (IF x < g.dim.x - 1 THEN <<",">> ELSE <<>>)
                 \o RowText(g, y, x + 1)

RECURSIVE RowsText(_, _)
RowsText(g, y) ==
    IF y >= g.dim.y THEN <<>>
    ELSE <<"\n">> \o RowText(g, y, 0) \o RowsText(g, y + 1)

DebugText(g) == to_string(g.dim.x) \o <<"x">> \o to_string(g.dim.y) \o RowsText(g, 0)

\* C10: Debug formatting of any grid a constructor can return completes
\* without panicking and writes the header line and one line per row, each
\* element right-aligned to the longest stringified element.
C10_DebugFormat ==
    last.op = "fmt" =>
        /\ last.panic = NoPanic
        /\ WellFormed(last.before)
        /\ last.ret = DebugText(last.before)
====
